---- MODULE Spec2Model ----
(***************************************************************************)
(* Model of the Dart class model (DartClass, ClassPart, DartClassProperty)  *)
(* and of the import block (Imports) of dart-data-o-matic.                  *)
(*                                                                          *)
(* JavaScript strings are TLA+ strings: Len, \o and SubSeq act on them as   *)
(* length, + and substring.  A nullable field is <<>> (null) or <<v>>.      *)
(***************************************************************************)
EXTENDS Integers, Sequences, FiniteSets, TLC

VARIABLES
    clazz,        \* the DartClass object (a record of its fields)
    imports,      \* the Imports object (a record of its fields)
    pc,           \* what has been called so far
    replacement,  \* <<>> or <<the string returned by generateClassReplacement>>
    isValidOut,   \* <<>> or <<the value read from the isValid getter>>
    issueOut,     \* <<>> or <<the string read from the issue getter>>
    formattedOut, \* the strings read from the formatted getter, oldest first
    calls,        \* the requiresImport calls made, oldest first, each with the values before it
    workspaceFolder, \* <<>> or <<the basename of the document's workspace folder>>
    document,     \* <<>> or <<the text whose import block is read on its own>>
    run           \* <<>> or <<the activation of generateDataClass: its locals and effects>>

vars == <<clazz, imports, pc, replacement, isValidOut, issueOut, formattedOut, calls,
          workspaceFolder, document, run>>

(***************************************************************************)
(* Bounds of the model.                                                     *)
(***************************************************************************)
MaxBody == 2
MaxParts == 1
MaxProps == 3
MaxLines == 2
MaxCalls == 2

(***************************************************************************)
(* null and the JavaScript coercions of it that the code relies on.         *)
(***************************************************************************)
None == <<>>
Some(v) == <<v>>
IsNull(o) == o = <<>>
Val(o) == o[1]
\* null in arithmetic and in <, <=: ToNumber(null) = 0
Num(o) == IF IsNull(o) THEN 0 ELSE Val(o)
\* null in a string concatenation
Str(o) == IF IsNull(o) THEN "null" ELSE Val(o)

(***************************************************************************)
(* String.prototype functions.                                              *)
(***************************************************************************)
CharAt(s, i) == SubSeq(s, i, i)
StartsWith(s, p) == Len(s) >= Len(p) /\ SubSeq(s, 1, Len(p)) = p
EndsWith(s, p) == Len(s) >= Len(p) /\ SubSeq(s, Len(s) - Len(p) + 1, Len(s)) = p
Includes(s, sub) == \E i \in 1..(Len(s) - Len(sub) + 1) : SubSeq(s, i, i + Len(sub) - 1) = sub
IsSpace(ch) == ch \in {" ", "\n", "\t", "\r"}
RECURSIVE TrimLeft(_)
TrimLeft(s) ==
    IF Len(s) > 0 /\ IsSpace(CharAt(s, 1)) THEN TrimLeft(SubSeq(s, 2, Len(s))) ELSE s
RECURSIVE TrimRight(_)
TrimRight(s) ==
    IF Len(s) > 0 /\ IsSpace(CharAt(s, Len(s))) THEN TrimRight(SubSeq(s, 1, Len(s) - 1)) ELSE s
Trim(s) == TrimRight(TrimLeft(s))
\* s.split('\n')
RECURSIVE Split(_)
Split(s) ==
    IF \E i \in 1..Len(s) : CharAt(s, i) = "\n"
    THEN LET i == CHOOSE k \in 1..Len(s) :
                      CharAt(s, k) = "\n" /\ \A j \in 1..(k - 1) : CharAt(s, j) # "\n"
         IN  <<SubSeq(s, 1, i - 1)>> \o Split(SubSeq(s, i + 1, Len(s)))
    ELSE <<s>>
\* lines.join('\n')
RECURSIVE Join(_)
Join(lines) ==
    IF Len(lines) = 0 THEN ""
    ELSE IF Len(lines) = 1 THEN lines[1]
    ELSE lines[1] \o "\n" \o Join(Tail(lines))

(***************************************************************************)
(* helpers.js (required at the top of types.js; its source is not part of   *)
(* the files at hand).                                                      *)
(***************************************************************************)
removeEnd(source, end) ==
    IF EndsWith(source, end) THEN SubSeq(source, 1, Len(source) - Len(end)) ELSE source
isBlank(str) == Trim(str) = ""

(***************************************************************************)
(* class DartClass: the getters.  A class c is the record of its fields;    *)
(* a property is [name, lineNumber], name being the stored (normalized)     *)
(* name; a ClassPart is [name, startsAt, endsAt, replacement].              *)
(***************************************************************************)
propsEndAtLine(c) ==
    IF Len(c.properties) > 0 THEN c.properties[Len(c.properties)].lineNumber ELSE -1
classDetected(c) == ~IsNull(c.startsAtLine)
didChange(c) == Len(c.toInsert) > 0 \/ Len(c.toReplace) > 0 \/ c.constrDifferent
hasConstructor(c) ==
    ~IsNull(c.constrStartsAtLine) /\ ~IsNull(c.constrEndsAtLine) /\ ~IsNull(c.constr)
hasEnding(c) == ~IsNull(c.endsAtLine)
hasProperties(c) == Len(c.properties) > 0
\* the loop of uniquePropNames: props holds the names seen before index i
RECURSIVE uniqueLoop(_, _, _)
uniqueLoop(properties, i, props) ==
    IF i > Len(properties) THEN TRUE
    ELSE IF \E k \in 1..Len(props) : props[k] = properties[i].name THEN FALSE
    ELSE uniqueLoop(properties, i + 1, Append(props, properties[i].name))
uniquePropNames(c) == uniqueLoop(c.properties, 1, <<>>)
isValidNoUnique(c) == classDetected(c) /\ hasEnding(c) /\ hasProperties(c)
isValid(c) == classDetected(c) /\ hasEnding(c) /\ hasProperties(c) /\ uniquePropNames(c)
isAbstract(c) ==
    IF c.classContent # ""
    THEN StartsWith(TrimLeft(c.classContent), "abstract class")
    ELSE c.abstract
issueDef(c) == Str(c.name) \o " couldn't be converted to a data class: "
issueEndingLast(c) ==
    IF ~hasProperties(c) THEN issueDef(c) \o "Class must have at least one property!"
    ELSE IF ~uniquePropNames(c) THEN issueDef(c) \o "Class doesn't have unique property names!"
    ELSE IF ~hasEnding(c) THEN issueDef(c) \o "Class has no ending!"
    ELSE removeEnd(issueDef(c), ": ") \o "."
issue(c) ==
    IF ~hasProperties(c) THEN issueDef(c) \o "Class must have at least one property!"
    ELSE IF ~hasEnding(c) THEN issueDef(c) \o "Class has no ending!"
    ELSE IF ~uniquePropNames(c) THEN issueDef(c) \o "Class doesn't have unique property names!"
    ELSE removeEnd(issueDef(c), ": ") \o "."

(***************************************************************************)
(* replacementAtLine: the replacement of the first part whose span covers   *)
(* the line, or null.                                                       *)
(***************************************************************************)
replacementAtLineOffByOne(c, line) ==
    LET hits == {k \in 1..Len(c.toReplace) :
                    c.toReplace[k].startsAt - 1 <= line /\ c.toReplace[k].endsAt >= line}
    IN  IF hits = {} THEN None
        ELSE Some(c.toReplace[CHOOSE k \in hits : \A j \in hits : k <= j].replacement)
replacementAtLine(c, line) ==
    LET hits == {k \in 1..Len(c.toReplace) :
                    c.toReplace[k].startsAt <= line /\ c.toReplace[k].endsAt >= line}
    IN  IF hits = {} THEN None
        ELSE Some(c.toReplace[CHOOSE k \in hits : \A j \in hits : k <= j].replacement)

(***************************************************************************)
(* generateClassReplacement.                                                *)
(***************************************************************************)
\* the inner function addSuperTypes: what it appends to classDeclaration
RECURSIVE superTypesFrom(_, _)
superTypesFrom(list, x) ==
    IF x > Len(list) THEN ""
    ELSE list[x] \o (IF x # Len(list) THEN ", " ELSE "") \o superTypesFrom(list, x + 1)
addSuperTypes(list, keyword) ==
    IF Len(list) = 0 THEN "" ELSE " " \o keyword \o " " \o superTypesFrom(list, 1)
\* the branch i == 0: the class declaration line
classDeclarationInterfacesFirst(c) ==
    (IF isAbstract(c) THEN "abstract class" ELSE "class") \o " " \o Str(c.name) \o c.fullGenericType
    \o (IF ~IsNull(c.superclass) THEN " extends " \o Val(c.superclass) ELSE "")
    \o addSuperTypes(c.interfaces, "implements")
    \o addSuperTypes(c.mixins, "with")
    \o " {\n"
classDeclaration(c) ==
    (IF isAbstract(c) THEN "abstract class" ELSE "class") \o " " \o Str(c.name) \o c.fullGenericType
    \o (IF ~IsNull(c.superclass) THEN " extends " \o Val(c.superclass) ELSE "")
    \o addSuperTypes(c.mixins, "with")
    \o addSuperTypes(c.interfaces, "implements")
    \o " {\n"
\* lines[i] + '\n' for the 0-based index i; an index past the array reads undefined
lineAt(lines, i) == (IF i + 1 <= Len(lines) THEN lines[i + 1] ELSE "undefined") \o "\n"
\* one pass of the loop body: the new value of replacement
loopBody(c, lines, i, acc) ==
    LET line == lineAt(lines, i)
        l == Num(c.startsAtLine) + i
    IN  IF i = 0 THEN classDeclaration(c) \o acc
        ELSE IF l = propsEndAtLine(c) /\ ~IsNull(c.constr) /\ ~hasConstructor(c)
             THEN line \o Val(c.constr) \o acc
        ELSE IF ~IsNull(c.endsAtLine) /\ l = Val(c.endsAtLine) /\ isValid(c)
             THEN c.toInsert \o line \o acc
        ELSE LET rp == replacementAtLine(c, l)
             IN  IF ~IsNull(rp)
                 THEN (IF ~Includes(acc, Val(rp)) THEN Val(rp) \o "\n" \o acc ELSE acc)
                 ELSE line \o acc
RECURSIVE loopFrom(_, _, _, _)
loopFrom(c, lines, i, acc) ==
    IF i < 0 THEN acc ELSE loopFrom(c, lines, i - 1, loopBody(c, lines, i, acc))
generateClassReplacementSkipLast(c) ==
    removeEnd(loopFrom(c, Split(c.classContent),
                       Num(c.endsAtLine) - Num(c.startsAtLine) - 1, ""), "\n")
generateClassReplacement(c) ==
    removeEnd(loopFrom(c, Split(c.classContent),
                       Num(c.endsAtLine) - Num(c.startsAtLine), ""), "\n")

(***************************************************************************)
(* Array.prototype.sort() without a comparator: ascending by UTF-16 code    *)
(* units.  AsciiLow lists the characters of codes 32..95, AsciiHigh those   *)
(* of codes 97..126.                                                        *)
(***************************************************************************)
AsciiLow == " !\"#$%&'()*+,-./0123456789:;<=>?@ABCDEFGHIJKLMNOPQRSTUVWXYZ[\\]^_"
AsciiHigh == "abcdefghijklmnopqrstuvwxyz{|}~"
CodeTable ==
    [ch \in {CharAt(AsciiLow, k) : k \in 1..Len(AsciiLow)}
             \cup {CharAt(AsciiHigh, k) : k \in 1..Len(AsciiHigh)} \cup {"\t", "\n"} |->
        IF ch = "\t" THEN 9
        ELSE IF ch = "\n" THEN 10
        ELSE IF \E k \in 1..Len(AsciiLow) : CharAt(AsciiLow, k) = ch
             THEN 31 + (CHOOSE k \in 1..Len(AsciiLow) : CharAt(AsciiLow, k) = ch)
        ELSE 96 + (CHOOSE k \in 1..Len(AsciiHigh) : CharAt(AsciiHigh, k) = ch)]
Code(ch) == CodeTable[ch]
\* a < b as strings: by the code units at the first index they differ at, a
\* proper prefix being the smaller
RECURSIVE LessFrom(_, _, _)
LessFrom(a, b, k) ==
    IF k > Len(b) THEN FALSE
    ELSE IF k > Len(a) THEN TRUE
    ELSE IF CharAt(a, k) # CharAt(b, k) THEN Code(CharAt(a, k)) < Code(CharAt(b, k))
    ELSE LessFrom(a, b, k + 1)
StrLess(a, b) == LessFrom(a, b, 1)
RECURSIVE Insert(_, _)
Insert(sorted, x) ==
    IF Len(sorted) = 0 THEN <<x>>
    ELSE IF StrLess(x, Head(sorted)) THEN <<x>> \o sorted
    ELSE <<Head(sorted)>> \o Insert(Tail(sorted), x)
RECURSIVE Sort(_)
Sort(list) == IF Len(list) = 0 THEN <<>> ELSE Insert(Sort(Tail(list)), Head(list))
\* s.replace('-', '_'): the first occurrence only
ReplaceFirstDash(s) ==
    IF Includes(s, "-")
    THEN LET i == CHOOSE k \in 1..Len(s) :
                      CharAt(s, k) = "-" /\ \A j \in 1..(k - 1) : CharAt(s, j) # "-"
         IN  SubSeq(s, 1, i - 1) \o "_" \o SubSeq(s, i + 1, Len(s))
    ELSE s

(***************************************************************************)
(* class Imports.  An import block im is the record of its fields.          *)
(***************************************************************************)
\* the field initialisers of the constructor
newImports(projectName) ==
    [values |-> <<>>, startAtLine |-> None, endAtLine |-> None,
     rawStatements |-> "", projectName |-> projectName]
hasImports(im) == Len(im.values) > 0
hasPreviousImports(im) == ~IsNull(im.startAtLine) /\ ~IsNull(im.endAtLine)
isDirective(line) ==
    StartsWith(line, "import") \/ StartsWith(line, "export") \/ StartsWith(line, "part")
\* the section goes on over a line that is not a directive
sectionGoesOnBlankEnds(im, line) ==
    (StartsWith(line, "//") /\ Len(im.values) = 0) \/ StartsWith(line, "library")
sectionGoesOn(im, line) ==
    (StartsWith(line, "//") /\ Len(im.values) = 0) \/ StartsWith(line, "library")
    \/ isBlank(line)
\* the loop of readImports from the 0-based index i on
RECURSIVE readLoop(_, _, _)
readLoop(im, lines, i) ==
    IF i >= Len(lines) THEN im
    ELSE LET line == Trim(lines[i + 1])
             isLast == i = Len(lines) - 1
         IN  IF isDirective(line)
             THEN LET pushed == [im EXCEPT
                          !.values = Append(@, line),
                          !.rawStatements = @ \o line \o "\n",
                          !.startAtLine = IF IsNull(@) THEN Some(i + 1) ELSE @]
                  IN  IF isLast THEN [pushed EXCEPT !.endAtLine = Some(i + 1)]
                      ELSE readLoop(pushed, lines, i + 1)
             ELSE IF isLast \/ ~sectionGoesOn(im, line)
                  THEN IF ~IsNull(im.startAtLine)
                       THEN IF i > 0 /\ isBlank(lines[i])
                            THEN [im EXCEPT !.endAtLine = Some(i - 1)]
                            ELSE [im EXCEPT !.endAtLine = Some(i)]
                       ELSE im
                  ELSE readLoop(im, lines, i + 1)
readImports(im, text) == IF text = "" THEN im ELSE readLoop(im, Split(text), 0)
\* the workspace name formatted uses; folder is the basename of the document's
\* workspace folder, null when the document has none
workspaceOf(im, folder) ==
    IF IsNull(im.projectName) \/ Val(im.projectName) = ""
    THEN IF ~IsNull(folder) THEN Some(ReplaceFirstDash(Val(folder))) ELSE im.projectName
    ELSE im.projectName
\* the array a statement is pushed to
bucketOf(statement, workspace) ==
    IF StartsWith(statement, "export") THEN "exports"
    ELSE IF StartsWith(statement, "part") THEN "partStatements"
    ELSE IF Includes(statement, "dart:") THEN "dartImports"
    ELSE IF ~IsNull(workspace) /\ Includes(statement, "package:" \o Val(workspace))
         THEN "packageLocalImports"
    ELSE IF Includes(statement, "package:") THEN "packageImports"
    ELSE "relativeImports"
\* the loop over this.values: the array of each statement
buckets(values, workspace) == [k \in 1..Len(values) |-> bucketOf(values[k], workspace)]
\* the array b after the loop, from the statement at index k on
RECURSIVE bucket(_, _, _, _)
bucket(values, tags, b, k) ==
    IF k > Len(values) THEN <<>>
    ELSE (IF tags[k] = b THEN <<values[k]>> ELSE <<>>) \o bucket(values, tags, b, k + 1)
\* what addImports appends for the statements as they are given
RECURSIVE appendStatements(_)
appendStatements(statements) ==
    IF Len(statements) = 0 THEN ""
    ELSE Head(statements) \o "\n" \o (IF Len(statements) = 1 THEN "\n" ELSE "")
         \o appendStatements(Tail(statements))
addImportsUnsorted(statements) == appendStatements(statements)
addImports(statements) == appendStatements(Sort(statements))
formatted(im, folder) ==
    IF ~hasImports(im) THEN ""
    ELSE LET tags == buckets(im.values, workspaceOf(im, folder))
         IN  removeEnd(addImports(bucket(im.values, tags, "dartImports", 1))
                       \o addImports(bucket(im.values, tags, "packageImports", 1))
                       \o addImports(bucket(im.values, tags, "packageLocalImports", 1))
                       \o addImports(bucket(im.values, tags, "relativeImports", 1))
                       \o addImports(bucket(im.values, tags, "exports", 1))
                       \o addImports(bucket(im.values, tags, "partStatements", 1)), "\n")
includes(im, importStatement) == \E k \in 1..Len(im.values) : im.values[k] = importStatement
hasAtLeastOneImport(im, packageNames) ==
    \E k \in 1..Len(packageNames) : includes(im, "import '" \o packageNames[k] \o "';")
requiresImportNoOverrides(im, importStatementOrPackageName, validOverrides) ==
    LET formattedImport ==
            IF ~StartsWith(importStatementOrPackageName, "import")
            THEN "import '" \o importStatementOrPackageName \o "';"
            ELSE importStatementOrPackageName
    IN  IF ~includes(im, formattedImport)
        THEN [im EXCEPT !.values = Append(@, formattedImport)]
        ELSE im
requiresImport(im, importStatementOrPackageName, validOverrides) ==
    LET formattedImport ==
            IF ~StartsWith(importStatementOrPackageName, "import")
            THEN "import '" \o importStatementOrPackageName \o "';"
            ELSE importStatementOrPackageName
    IN  IF ~includes(im, formattedImport) /\ ~hasAtLeastOneImport(im, validOverrides)
        THEN [im EXCEPT !.values = Append(@, formattedImport)]
        ELSE im

(***************************************************************************)
(* The state machine.  A DartClass is filled in by the reader and the       *)
(* generator and then read through its getters and                          *)
(* generateClassReplacement; an Imports is constructed from a text, asked   *)
(* for imports by the generator and then formatted.                         *)
(***************************************************************************)
\* the constructor of DartClass
newDartClass ==
    [name |-> None, fullGenericType |-> "", superclass |-> None, interfaces |-> <<>>,
     mixins |-> <<>>, constr |-> None, properties |-> <<>>, startsAtLine |-> None,
     endsAtLine |-> None, constrStartsAtLine |-> None, constrEndsAtLine |-> None,
     constrDifferent |-> FALSE, isArray |-> FALSE, classContent |-> "", toInsert |-> "",
     toReplace |-> <<>>, isLastInFile |-> FALSE, abstract |-> FALSE]
\* the constructor of ClassPart
ClassPart(name, startsAt, endsAt, current, rep) ==
    [name |-> name, startsAt |-> startsAt, endsAt |-> endsAt, current |-> current,
     replacement |-> rep]
\* the constructor of DartClassProperty, name being the normalized name
DartClassProperty(name, lineNumber) == [name |-> name, lineNumber |-> lineNumber]

SeqsUpTo(S, n) == UNION {[1..k -> S] : k \in 0..n}

\* ---- the classes of the validity checks: any start, ending and properties
PropNames == {"id", "a"}
ValidityClasses ==
    {[newDartClass EXCEPT !.name = Some("A"), !.startsAtLine = s, !.endsAtLine = e,
                          !.properties = [k \in DOMAIN names |->
                                             DartClassProperty(names[k], 1 + k)]] :
        s \in {None, Some(1)}, e \in {None, Some(1 + MaxProps + 1)},
        names \in SeqsUpTo(PropNames, MaxProps)}

\* ---- the classes handed to generateClassReplacement: a body between the
\* ---- declaration line and the closing brace, or a class on one line
FieldLine == "  final int a;"
MethodG == "  int g() => 2;"
BodyLines == {FieldLine, MethodG, ""}
ConstrText == "  A(this.a);\n"
InsertText == "\n  int h() => 3;\n"
ReplacementTexts == {MethodG, "  @override\n  int z() => 0;"}
FirstLine == 3
Spans(from, to) == {sp \in (from..to) \X (from..to) : sp[1] <= sp[2] /\ sp[2] - sp[1] < 2}
Parts(from, to) ==
    {ClassPart("m", sp[1], sp[2], "", r) : sp \in Spans(from, to), r \in ReplacementTexts}
\* the spans of the parts found in one source never overlap
Disjoint(parts) ==
    \A i, j \in 1..Len(parts) :
        i < j => parts[i].endsAt < parts[j].startsAt \/ parts[j].endsAt < parts[i].startsAt
PartLists(from, to) == {parts \in SeqsUpTo(Parts(from, to), MaxParts) : Disjoint(parts)}
Constructors(from, to) ==
    {[constr |-> None, at |-> None, different |-> FALSE],
     [constr |-> Some(ConstrText), at |-> None, different |-> TRUE],
     [constr |-> Some(ConstrText), at |-> Some(IF from < to THEN from + 1 ELSE from),
      different |-> FALSE]}
Filled(content, from, to, props, k, ins, parts) ==
    [newDartClass EXCEPT !.name = Some("A"), !.classContent = content,
                         !.startsAtLine = Some(from), !.endsAtLine = Some(to),
                         !.properties = props, !.constr = k.constr,
                         !.constrStartsAtLine = k.at, !.constrEndsAtLine = k.at,
                         !.constrDifferent = k.different,
                         !.toInsert = ins, !.toReplace = parts]
IsFilled(c, content, from, to) ==
    \E props \in {<<>>} \cup {<<DartClassProperty("a", p)>> : p \in from..to},
       k \in Constructors(from, to),
       ins \in {"", InsertText},
       parts \in PartLists(from, to) :
          c = Filled(content, from, to, props, k, ins, parts)
IsBodyClass(c) ==
    \/ \E body \in SeqsUpTo(BodyLines, MaxBody) :
          IsFilled(c, Join(<<"class A {">> \o body \o <<"}">>), FirstLine,
                   FirstLine + Len(body) + 1)
    \/ IsFilled(c, "class A { final int a; }", FirstLine, FirstLine)

\* ---- the classes that differ in their declaration
HeaderSources == {"", "class A {\n}", "abstract class A {\n}", "  abstract class A{\n}",
                  "class  A\n{}"}
HeaderClasses ==
    {[newDartClass EXCEPT !.name = Some("A"), !.classContent = src,
                          !.startsAtLine = Some(1),
                          !.endsAtLine = Some(Len(Split(src))),
                          !.properties = <<DartClassProperty("a", 1)>>,
                          !.abstract = abs, !.fullGenericType = g, !.superclass = sup,
                          !.mixins = mix, !.interfaces = int] :
        src \in HeaderSources, abs \in BOOLEAN, g \in {"", "<T extends num>"},
        sup \in {None, Some("B")}, mix \in {<<>>, <<"M">>, <<"M", "N">>},
        int \in {<<>>, <<"I">>, <<"I", "J">>}}

\* ---- the texts an Imports is constructed from
TextLines == {"  import 'dart:async';", "import 'package:app/a.dart';",
              "import 'package:z_e-d/z.dart';", "import 'b.dart';", "export 'e.dart';",
              "part 'p.g.dart';", "", "// c", "library l;", "class A {}"}
Texts == {Join(ls) : ls \in SeqsUpTo(TextLines, MaxLines)}
\* the texts whose import block is read on its own
MaxDocLines == 3
DocumentLines == TextLines \cup {"import 'dart:io';"}
DocumentTexts == {Join(ls) : ls \in SeqsUpTo(DocumentLines, MaxDocLines)}
ProjectNames == {None, Some(""), Some("app")}
Folders == {None, Some("z-e-d")}
\* the project name handed to the constructor and the workspace folder of the
\* document: no name and an empty name, a named project in its folder, and a
\* folder without a project name
Projects == {<<None, None>>, <<Some(""), None>>, <<None, Some("z-e-d")>>,
             <<Some("app"), Some("z-e-d")>>}
ImportArgs == {"package:app/a.dart", "import 'package:z_e-d/z.dart';"}
OverrideLists == {<<>>, <<"c.dart", "package:z_e-d/z.dart">>}

Idle ==
    /\ replacement = None /\ isValidOut = None /\ issueOut = None
    /\ formattedOut = <<>> /\ calls = <<>>
    /\ document = None /\ run = None

InitValidity ==
    /\ clazz \in ValidityClasses
    /\ imports = newImports(None) /\ workspaceFolder = None
    /\ pc = "class" /\ Idle
InitGenerate ==
    /\ (IsBodyClass(clazz) \/ clazz \in HeaderClasses)
    /\ imports = newImports(None) /\ workspaceFolder = None
    /\ pc = "class" /\ Idle
InitRead ==
    /\ clazz = newDartClass
    /\ imports = newImports(None) /\ workspaceFolder = None
    /\ replacement = None /\ isValidOut = None /\ issueOut = None
    /\ formattedOut = <<>> /\ calls = <<>> /\ run = None
    /\ document \in {Some(t) : t \in DocumentTexts}
    /\ pc = "document"
InitImports ==
    /\ clazz = newDartClass
    /\ imports = newImports(None) /\ workspaceFolder \in Folders
    /\ pc = "new" /\ Idle

\* reading the getter isValid
GetIsValid ==
    /\ pc = "class" /\ isValidOut = None
    /\ isValidOut' = Some(isValid(clazz))
    /\ UNCHANGED <<clazz, imports, pc, replacement, issueOut, formattedOut, calls,
                   workspaceFolder, document, run>>
\* reading the getter issue
GetIssue ==
    /\ pc = "class" /\ issueOut = None
    /\ issueOut' = Some(issue(clazz))
    /\ UNCHANGED <<clazz, imports, pc, replacement, isValidOut, formattedOut, calls,
                   workspaceFolder, document, run>>
\* calling generateClassReplacement
GenerateClassReplacement ==
    /\ pc = "class" /\ replacement = None
    /\ replacement' = Some(generateClassReplacement(clazz))
    /\ UNCHANGED <<clazz, imports, pc, isValidOut, issueOut, formattedOut, calls,
                   workspaceFolder, document, run>>
\* new Imports(text, projectName)
Construct ==
    /\ pc = "new"
    /\ \E text \in Texts, projectName \in ProjectNames :
          /\ <<projectName, workspaceFolder>> \in Projects
          /\ imports' = readImports(newImports(projectName), text)
    /\ pc' = "imports"
    /\ UNCHANGED <<clazz, replacement, isValidOut, issueOut, formattedOut, calls,
                   workspaceFolder, document, run>>
\* imports.requiresImport(arg, validOverrides)
RequiresImport ==
    /\ pc = "imports" /\ Len(calls) < MaxCalls
    /\ \E arg \in ImportArgs, validOverrides \in OverrideLists :
          /\ imports' = requiresImport(imports, arg, validOverrides)
          /\ calls' = Append(calls, [arg |-> arg, validOverrides |-> validOverrides,
                                     before |-> imports.values])
    /\ UNCHANGED <<clazz, pc, replacement, isValidOut, issueOut, formattedOut,
                   workspaceFolder, document, run>>
\* reading the getter formatted
GetFormatted ==
    /\ pc = "imports"
    /\ formattedOut' = <<formatted(imports, workspaceFolder)>>
    /\ pc' = "formatted"
    /\ UNCHANGED <<clazz, imports, replacement, isValidOut, issueOut, calls,
                   workspaceFolder, document, run>>
\* new Imports(formatted, projectName).formatted: the formatted text is formatted again
Reformat ==
    /\ pc = "formatted"
    /\ imports' = readImports(newImports(imports.projectName), formattedOut[1])
    /\ formattedOut' = Append(formattedOut, formatted(imports', workspaceFolder))
    /\ pc' = "reformatted"
    /\ UNCHANGED <<clazz, replacement, isValidOut, issueOut, calls, workspaceFolder, document, run>>

\* new Imports(text, null) on the text of a document
ReadImports ==
    /\ pc = "document"
    /\ imports' = readImports(newImports(None), Val(document))
    /\ pc' = "read"
    /\ UNCHANGED <<clazz, replacement, isValidOut, issueOut, formattedOut, calls,
                   workspaceFolder, document, run>>

(***************************************************************************)
(* commands.js: generateDataClass and showClassChooser.  run is the         *)
(* activation of the async function: the language of the document, the      *)
(* setting override.manual, the class objects of generator.clazzes (heap),  *)
(* theClasses as indices into heap, the position in the two loops, the      *)
(* answers given so far and what the host has been asked to do; clazzes     *)
(* keeps the class objects as the generator handed them over.  An action is *)
(* the code between two awaits.                                             *)
(***************************************************************************)
MaxClasses == 2
MaxOverrides == 2
OverrideNames == <<"copyWith", "toMap", "toString", "hashCode">>
\* the replacements the generator found for a class: the first n of them
Overrides(n) == [k \in 1..n |-> ClassPart(OverrideNames[k], FirstLine + k, FirstLine + k, "",
                                          MethodG)]
\* a class the generator hands over: valid or without an ending line
Clazz(name, valid, n) ==
    [newDartClass EXCEPT !.name = Some(name), !.startsAtLine = Some(FirstLine),
                         !.endsAtLine = IF valid THEN Some(FirstLine + n + 1) ELSE None,
                         !.properties = <<DartClassProperty("a", FirstLine)>>,
                         !.toReplace = Overrides(n)]
Clazzes ==
    {Clazz("A", TRUE, MaxOverrides), Clazz("C", FALSE, 1)}
    \cup {Clazz("B", TRUE, n) : n \in 0..(MaxOverrides - 1)}
\* the subsequences of a list of names: what a quick pick with canPickMany gives
RECURSIVE Picks(_)
Picks(values) ==
    IF Len(values) = 0 THEN {<<>>}
    ELSE LET rest == Picks(Tail(values))
         IN  rest \cup {<<Head(values)>> \o r : r \in rest}
\* showClassChooser: the classes of a response, by name
RECURSIVE classesNamed(_, _, _)
classesNamed(heap, selectedClass, k) ==
    IF k > Len(heap) THEN <<>>
    ELSE (IF heap[k].name = Some(selectedClass) THEN <<k>> ELSE <<>>)
         \o classesNamed(heap, selectedClass, k + 1)
RECURSIVE chooserResult(_, _)
chooserResult(heap, response) ==
    IF Len(response) = 0 THEN <<>>
    ELSE classesNamed(heap, Head(response), 1) \o chooserResult(heap, Tail(response))
\* the for loop over theClasses from index ci on, up to the next await: the
\* first prompt of the next class that is asked about, or applyEdit
loopOverClassesFirstOnly(rn, ci) ==
    IF ci > 1 \/ ci > Len(rn.theClasses)
    THEN [run |-> [rn EXCEPT !.ci = ci], pc |-> "applyEdit"]
    ELSE LET aClass == rn.heap[rn.theClasses[ci]]
         IN  IF isValid(aClass) /\ Len(aClass.toReplace) > 0 /\ rn.manual
             THEN [run |-> [rn EXCEPT !.ci = ci, !.ri = 1, !.asked = aClass.toReplace,
                                      !.result = <<>>],
                   pc |-> "override"]
             ELSE [run |-> [rn EXCEPT !.ci = ci + 1], pc |-> "applyEdit"]
RECURSIVE loopOverClasses(_, _)
loopOverClasses(rn, ci) ==
    IF ci > Len(rn.theClasses)
    THEN [run |-> [rn EXCEPT !.ci = ci], pc |-> "applyEdit"]
    ELSE LET aClass == rn.heap[rn.theClasses[ci]]
         IN  IF isValid(aClass) /\ Len(aClass.toReplace) > 0 /\ rn.manual
             THEN [run |-> [rn EXCEPT !.ci = ci, !.ri = 1, !.asked = aClass.toReplace,
                                      !.result = <<>>],
                   pc |-> "override"]
             ELSE loopOverClasses(rn, ci + 1)
\* return, with a notice or without
returns(rn, notice, value) ==
    [run |-> [rn EXCEPT !.notices = @ \o notice, !.returned = value], pc |-> "returned"]

InitRun ==
    /\ clazz = newDartClass /\ imports = newImports(None) /\ workspaceFolder = None
    /\ replacement = None /\ isValidOut = None /\ issueOut = None
    /\ formattedOut = <<>> /\ calls = <<>> /\ document = None
    /\ \E langId \in {"dart", "json"}, manual \in BOOLEAN,
          heap \in SeqsUpTo(Clazzes, MaxClasses) :
          run = [langId |-> langId, manual |-> manual, clazzes |-> heap, heap |-> heap,
                 theClasses |-> <<>>,
                 chooserShown |-> FALSE, response |-> <<>>, ci |-> 0, ri |-> 0,
                 asked |-> <<>>, result |-> <<>>, answers |-> <<>>, applied |-> 0,
                 notices |-> <<>>, returned |-> ""]
    /\ pc = "start"

\* generateDataClass up to its first await or return
Start ==
    /\ pc = "start"
    /\ LET theClasses == [k \in 1..Len(run.heap) |-> k]
           next == IF run.langId # "dart"
                   THEN returns(run, <<"Make sure that you're editing a dart file">>, "null")
                   ELSE IF Len(theClasses) = 0
                   THEN returns(run, <<"No convertible dart classes were detected!">>, "null")
                   ELSE IF Len(theClasses) >= 2
                   THEN [run |-> [run EXCEPT !.theClasses = theClasses,
                                             !.chooserShown = TRUE],
                         pc |-> "chooser"]
                   ELSE loopOverClasses([run EXCEPT !.theClasses = theClasses], 1)
       IN  run' = next.run /\ pc' = next.pc
    /\ UNCHANGED <<clazz, imports, replacement, isValidOut, issueOut, formattedOut, calls,
                   workspaceFolder, document>>
\* the quick pick of showClassChooser is dismissed: response is undefined
CancelChooser ==
    /\ pc = "chooser"
    /\ LET next == returns(run, <<"No classes selected!">>, "undefined")
       IN  run' = next.run /\ pc' = next.pc
    /\ UNCHANGED <<clazz, imports, replacement, isValidOut, issueOut, formattedOut, calls,
                   workspaceFolder, document>>
\* the quick pick of showClassChooser is accepted with the names response
AnswerChooser ==
    /\ pc = "chooser"
    /\ \E response \in Picks([k \in 1..Len(run.heap) |-> Val(run.heap[k].name)]) :
          LET picked == [run EXCEPT !.response = response]
              next == IF Len(response) > 0
                      THEN loopOverClasses([picked EXCEPT
                               !.theClasses = chooserResult(run.heap, response)], 1)
                      ELSE returns(picked, <<"No classes selected!">>, "undefined")
          IN  run' = next.run /\ pc' = next.pc
    /\ UNCHANGED <<clazz, imports, replacement, isValidOut, issueOut, formattedOut, calls,
                   workspaceFolder, document>>
\* the quick pick 'Do you want to override ...?' is answered with r, "null"
\* when it is dismissed
AnswerOverride ==
    /\ pc = "override"
    /\ \E r \in {"Yes", "No", "null"} :
          LET obj == run.theClasses[run.ci]
              asked == [run EXCEPT !.answers = Append(@, [visit |-> run.ci, class |-> obj,
                                                          name |-> run.asked[run.ri].name,
                                                          r |-> r])]
              result == IF r = "Yes" THEN Append(run.result, run.asked[run.ri])
                        ELSE run.result
              next == IF r = "null" THEN returns(asked, <<"Canceled!">>, "undefined")
                      ELSE IF run.ri < Len(run.asked)
                      THEN [run |-> [asked EXCEPT !.ri = @ + 1, !.result = result],
                            pc |-> "override"]
                      ELSE loopOverClasses([asked EXCEPT !.heap[obj].toReplace = result,
                                                         !.result = result],
                                           run.ci + 1)
          IN  run' = next.run /\ pc' = next.pc
    /\ UNCHANGED <<clazz, imports, replacement, isValidOut, issueOut, formattedOut, calls,
                   workspaceFolder, document>>
\* await vscode.workspace.applyEdit(...), clearSelection and return theClasses
ApplyEdit ==
    /\ pc = "applyEdit"
    /\ LET next == returns([run EXCEPT !.applied = @ + 1], <<>>, "theClasses")
       IN  run' = next.run /\ pc' = next.pc
    /\ UNCHANGED <<clazz, imports, replacement, isValidOut, issueOut, formattedOut, calls,
                   workspaceFolder, document>>

NextValidity == GetIsValid \/ GetIssue
NextGenerate == GenerateClassReplacement
NextImports == Construct \/ RequiresImport \/ GetFormatted \/ Reformat

SpecValidity == InitValidity /\ [][NextValidity]_vars
SpecGenerate == InitGenerate /\ [][NextGenerate]_vars
SpecImports == InitImports /\ [][NextImports]_vars
NextRead == ReadImports
SpecRead == InitRead /\ [][NextRead]_vars
NextRun == Start \/ CancelChooser \/ AnswerChooser \/ AnswerOverride \/ ApplyEdit
SpecRun == InitRun /\ [][NextRun]_vars

(***************************************************************************)
(* Properties of the validity getters (under SpecValidity).                 *)
(***************************************************************************)
DistinctNames(properties) ==
    \A i, j \in 1..Len(properties) : i # j => properties[i].name # properties[j].name
SharesAName(properties) ==
    \E i, j \in 1..Len(properties) : i # j /\ properties[i].name = properties[j].name

\* C3: isValid is true exactly when the class start was detected, the class
\* has an ending line, it has at least one field and the normalized field
\* names are pairwise distinct; a class with two fields of one normalized
\* name is never valid.
C3_IsValidIffAllFour ==
    ~IsNull(isValidOut) =>
        /\ Val(isValidOut) <=> (/\ clazz.startsAtLine # None
                                /\ clazz.endsAtLine # None
                                /\ Len(clazz.properties) >= 1
                                /\ DistinctNames(clazz.properties))
        /\ SharesAName(clazz.properties) => Val(isValidOut) = FALSE
\* isValid was read as false on a class that has its start, its ending and
\* three fields, the first and the last of which share their name
C3_Witness ==
    /\ isValidOut = Some(FALSE)
    /\ clazz.startsAtLine # None /\ clazz.endsAtLine # None
    /\ Len(clazz.properties) = 3
    /\ clazz.properties[1].name = clazz.properties[3].name
    /\ clazz.properties[1].name # clazz.properties[2].name

\* C9: for a class that is not valid, issue gives the reason by the priority
\* no fields, then no ending, then names not unique, then the generic
\* sentence; a class (with an ending) two fields of which share a normalized
\* name is told that it doesn't have unique property names.
C9_IssueByPriority ==
    (~IsNull(issueOut) /\ ~isValid(clazz)) =>
        /\ Val(issueOut) = "A couldn't be converted to a data class"
              \o (IF Len(clazz.properties) = 0 THEN ": Class must have at least one property!"
                  ELSE IF clazz.endsAtLine = None THEN ": Class has no ending!"
                  ELSE IF SharesAName(clazz.properties)
                       THEN ": Class doesn't have unique property names!"
                  ELSE ".")
        /\ (SharesAName(clazz.properties) /\ clazz.endsAtLine # None) =>
              EndsWith(Val(issueOut), "Class doesn't have unique property names!")
\* issue was read on a class with an ending and two fields named id
C9_Witness ==
    /\ issueOut =
         Some("A couldn't be converted to a data class: Class doesn't have unique property names!")
    /\ clazz.endsAtLine # None
    /\ Len(clazz.properties) = 2
    /\ clazz.properties[1].name = "id" /\ clazz.properties[2].name = "id"

(***************************************************************************)
(* Properties of generateClassReplacement (under SpecGenerate).             *)
(***************************************************************************)
\* the source lines startsAtLine..endsAtLine of the class
SourceLines(c) ==
    SubSeq(Split(c.classContent), 1, Val(c.endsAtLine) - Val(c.startsAtLine) + 1)
\* the line number of the k-th source line
LineNo(c, k) == Val(c.startsAtLine) + k - 1
Covered(c, l) == \E k \in 1..Len(c.toReplace) : c.toReplace[k].startsAt <= l /\ l <= c.toReplace[k].endsAt
\* the source is what a run generates: nothing to insert, nothing to replace,
\* the constructor detected and unchanged, the first line the regenerated header
SourceIsGenerated(c) ==
    /\ c.toInsert = "" /\ c.toReplace = <<>>
    /\ ~IsNull(c.constr) /\ ~IsNull(c.constrStartsAtLine) /\ ~IsNull(c.constrEndsAtLine)
    /\ ~c.constrDifferent
    /\ SourceLines(c)[1] \o "\n" = classDeclaration(c)

\* C1: on a valid class whose source is already the generated output (no
\* pending inserts, no pending replacements, a detected constructor),
\* generateClassReplacement returns the class's own source lines
\* startsAtLine..endsAtLine, so that nothing changes on a second run.
C1_GeneratedSourceIsFixpoint ==
    (~IsNull(replacement) /\ isValid(clazz) /\ SourceIsGenerated(clazz)) =>
        /\ Val(replacement) = Join(SourceLines(clazz))
        /\ ~didChange(clazz)
\* such a class with a field, a blank line and a method between the header
\* and the closing brace has been regenerated
C1_Witness ==
    /\ ~IsNull(replacement) /\ isValid(clazz) /\ SourceIsGenerated(clazz)
    /\ SourceLines(clazz) = <<"class A {", FieldLine, "", "}">>

\* the source lines, other than the first, that no part's span covers
RECURSIVE UntouchedFrom(_, _)
UntouchedFrom(c, k) ==
    IF k > Len(SourceLines(c)) THEN <<>>
    ELSE (IF Covered(c, LineNo(c, k)) THEN <<>> ELSE <<SourceLines(c)[k]>>)
         \o UntouchedFrom(c, k + 1)
\* u can be read off o from left to right, skipping elements of o
RECURSIVE IsSubsequence(_, _)
IsSubsequence(u, o) ==
    IF Len(u) = 0 THEN TRUE
    ELSE IF Len(o) = 0 THEN FALSE
    ELSE IF Head(u) = Head(o) THEN IsSubsequence(Tail(u), Tail(o))
    ELSE IsSubsequence(u, Tail(o))

\* C2: every source line of the class that is not the header line and that no
\* pending replacement's span covers is a line of the output, unchanged, and
\* these lines come in their original order.
C2_UntouchedLinesKept ==
    ~IsNull(replacement) =>
        IsSubsequence(UntouchedFrom(clazz, 2), Tail(Split(Val(replacement))))
\* a class has been regenerated that has a part to replace and inserts to
\* add, the line before the part's span and the closing line untouched
C2_Witness ==
    /\ ~IsNull(replacement)
    /\ Len(clazz.toReplace) = 1 /\ clazz.toInsert # ""
    /\ Len(UntouchedFrom(clazz, 2)) = 2
    /\ \E k \in 3..(Len(SourceLines(clazz)) - 1) :
          /\ Covered(clazz, LineNo(clazz, k))
          /\ ~Covered(clazz, LineNo(clazz, k - 1))
          /\ ~Covered(clazz, LineNo(clazz, k + 1))

\* C4: for every valid class the output ends with the pending inserts
\* followed by the closing line of the source: the inserts are placed
\* immediately before the closing-brace line, which is kept.
C4_InsertsBeforeClosingLine ==
    (~IsNull(replacement) /\ isValid(clazz)) =>
        EndsWith(Val(replacement),
                 clazz.toInsert \o SourceLines(clazz)[Len(SourceLines(clazz))])

\* the header the claim describes, for a given abstract flag
RECURSIVE CommaList(_)
CommaList(list) ==
    IF Len(list) = 0 THEN ""
    ELSE IF Len(list) = 1 THEN list[1]
    ELSE list[1] \o ", " \o CommaList(Tail(list))
HeaderOf(c, abstract) ==
    (IF abstract THEN "abstract " ELSE "") \o "class " \o Val(c.name) \o c.fullGenericType
    \o (IF c.superclass = None THEN "" ELSE " extends " \o Val(c.superclass))
    \o (IF c.mixins = <<>> THEN "" ELSE " with " \o CommaList(c.mixins))
    \o (IF c.interfaces = <<>> THEN "" ELSE " implements " \o CommaList(c.interfaces))
    \o " {"
\* what the getter isAbstract reads: the source text when there is one
AbstractInSource(c) ==
    IF c.classContent = "" THEN c.abstract
    ELSE StartsWith(TrimLeft(c.classContent), "abstract class")

\* C5 as stated: the first line of the output is the header made of the
\* stored fields, the stored abstract flag among them, and nothing of it
\* comes from the source text.
C5_HeaderFromStoredFields ==
    ~IsNull(replacement) => Split(Val(replacement))[1] = HeaderOf(clazz, clazz.abstract)
\* C5 as amended: for a class with a start and an ending line the first line
\* of the output is the header made of name, generic parameters, superclass,
\* mixins and interfaces as stored, and of the abstract keyword as the
\* getter isAbstract gives it: read from the start of the source text when
\* the class has source text, the stored flag otherwise.
C5_HeaderFromFieldsAndIsAbstract ==
    ~IsNull(replacement) =>
        Split(Val(replacement))[1] = HeaderOf(clazz, AbstractInSource(clazz))
\* a class stored as abstract, whose source starts with class and is laid
\* out differently, has been regenerated with two mixins and two interfaces
C5_Witness ==
    /\ ~IsNull(replacement)
    /\ clazz.abstract /\ clazz.classContent = "class  A\n{}"
    /\ Len(clazz.mixins) = 2 /\ Len(clazz.interfaces) = 2 /\ clazz.superclass # None
    /\ Split(Val(replacement))[1] = "class A extends B with M, N implements I, J {"

\* the output C10 describes: line by line, a covered line gives the
\* replacement text at the first line of its span and nothing after it;
\* every other line is what the code makes of it
StrictlyInside(c) ==
    \A k \in 1..Len(c.toReplace) :
        Val(c.startsAtLine) < c.toReplace[k].startsAt /\ c.toReplace[k].endsAt < Val(c.endsAtLine)
PartAt(c, l) ==
    c.toReplace[CHOOSE k \in 1..Len(c.toReplace) :
                    c.toReplace[k].startsAt <= l /\ l <= c.toReplace[k].endsAt]
RECURSIVE InPlaceFrom(_, _)
InPlaceFrom(c, k) ==
    IF k > Len(SourceLines(c)) THEN ""
    ELSE LET l == LineNo(c, k)
             line == SourceLines(c)[k] \o "\n"
         IN  (IF k = 1 THEN classDeclaration(c)
              ELSE IF Covered(c, l)
                   THEN (IF PartAt(c, l).startsAt = l
                         THEN PartAt(c, l).replacement \o "\n" ELSE "")
              ELSE IF l = propsEndAtLine(c) /\ ~IsNull(c.constr) /\ ~hasConstructor(c)
                   THEN line \o Val(c.constr)
              ELSE IF l = Val(c.endsAtLine) /\ isValid(c) THEN c.toInsert \o line
              ELSE line)
             \o InPlaceFrom(c, k + 1)

\* C10: when the spans of the pending replacements lie strictly between the
\* header line and the closing line (and do not overlap), the source lines
\* of each span are left out of the output and its replacement text stands
\* exactly once at the place of the span, whatever the other lines are.
C10_SpansReplacedInPlace ==
    (~IsNull(replacement) /\ StrictlyInside(clazz) /\ Disjoint(clazz.toReplace)) =>
        Val(replacement) = removeEnd(InPlaceFrom(clazz, 1), "\n")

\* the number of places at which sub stands in s
Occurrences(s, sub) ==
    Cardinality({i \in 1..(Len(s) - Len(sub) + 1) : SubSeq(s, i, i + Len(sub) - 1) = sub})
\* the source line of the last declared field, with its end of line
LastFieldLine(c) == SourceLines(c)[propsEndAtLine(c) - Val(c.startsAtLine) + 1] \o "\n"

\* C11: for a class with a field, when there is a synthesized constructor
\* text and no constructor was detected, the output holds the constructor
\* text exactly once, immediately after the line of the last declared field;
\* when a constructor was detected (or none is synthesized) no constructor
\* text is inserted.
C11_ConstructorAfterLastField ==
    (~IsNull(replacement) /\ hasProperties(clazz)) =>
        IF ~IsNull(clazz.constr) /\ ~hasConstructor(clazz)
        THEN /\ Occurrences(Val(replacement) \o "\n", Val(clazz.constr)) = 1
             /\ Includes(Val(replacement) \o "\n", LastFieldLine(clazz) \o Val(clazz.constr))
        ELSE ~Includes(Val(replacement) \o "\n", ConstrText)

(***************************************************************************)
(* Properties of the import block (under SpecImports).                      *)
(***************************************************************************)
\* C6: formatting is idempotent: the formatted text, parsed as an import
\* block of the same project and formatted again, is the same text.
C6_FormatIdempotent ==
    pc = "reformatted" => formattedOut[2] = formattedOut[1]
\* a block the generator added an import to has been formatted into more
\* than one group, parsed again and formatted again
C6_Witness ==
    /\ pc = "reformatted"
    /\ Len(calls) > 0 /\ calls[Len(calls)].before # imports.values
    /\ Includes(formattedOut[1], "\n\n")
    /\ Len(imports.values) >= 3

\* the place of a directive in the order of the six groups
GroupOf(statement, workspace) ==
    IF StartsWith(statement, "export") THEN 5
    ELSE IF StartsWith(statement, "part") THEN 6
    ELSE IF Includes(statement, "dart:") THEN 1
    ELSE IF workspace # None /\ Includes(statement, "package:" \o Val(workspace)) THEN 3
    ELSE IF Includes(statement, "package:") THEN 2
    ELSE 4
Count(list, x) == Cardinality({k \in 1..Len(list) : list[k] = x})
NonBlank(lines) == SelectSeq(lines, LAMBDA x : x # "")
\* lines are the lines of the formatted text without the end of its last line
WellGrouped(lines, values, workspace) ==
    /\ lines[1] # "" /\ lines[Len(lines)] # ""
    /\ \A v \in {values[k] : k \in 1..Len(values)} \cup {lines[k] : k \in 1..Len(lines)} :
          v # "" => Count(lines, v) = Count(values, v)
    /\ \A k \in 1..(Len(lines) - 1) :
          \/ /\ lines[k] # "" /\ lines[k + 1] # ""
             /\ GroupOf(lines[k], workspace) = GroupOf(lines[k + 1], workspace)
             /\ ~StrLess(lines[k + 1], lines[k])
          \/ /\ lines[k] # "" /\ lines[k + 1] = ""
             /\ lines[k + 2] # ""
             /\ GroupOf(lines[k], workspace) < GroupOf(lines[k + 2], workspace)
          \/ lines[k] = ""

\* C7: every captured directive stands in the formatted text exactly once,
\* the groups come in the order platform imports, third-party package
\* imports, same-project package imports, relative imports, exports, parts,
\* each group is sorted, one blank line follows each group but the last, and
\* the text ends with the end of its last directive, not with a blank line.
C7_SixSortedGroups ==
    pc = "formatted" =>
        IF imports.values = <<>> THEN formattedOut[1] = ""
        ELSE /\ EndsWith(formattedOut[1], "\n")
             /\ WellGrouped(Split(removeEnd(formattedOut[1], "\n")), imports.values,
                            workspaceOf(imports, workspaceFolder))
\* a block of four directives of three groups, two of one group in the wrong
\* order, has been formatted
C7_Witness ==
    /\ pc = "formatted"
    /\ Len(imports.values) = 4
    /\ imports.values[1] = "import 'dart:async';"
    /\ imports.values[3] = "import 'package:z_e-d/z.dart';"
    /\ imports.values[4] = "import 'package:app/a.dart';"
    /\ Cardinality({GroupOf(imports.values[k], workspaceOf(imports, workspaceFolder)) :
                       k \in 1..4}) = 3
    /\ Len(Split(formattedOut[1])) = 7

NoDuplicates(list) == \A i, j \in 1..Len(list) : i # j => list[i] # list[j]
Has(list, x) == \E k \in 1..Len(list) : list[k] = x
ImportOf(arg) ==
    IF Len(arg) >= 6 /\ SubSeq(arg, 1, 6) = "import" THEN arg ELSE "import '" \o arg \o "';"

\* C8: requiresImport appends the import statement of its argument exactly
\* when neither that statement nor the import of one of validOverrides is
\* in the list, and otherwise leaves the list as it is; a list without
\* duplicates stays without duplicates over any number of calls, and a call
\* made a second time changes nothing.
C8_RequiresImportOnce ==
    (pc = "imports" /\ Len(calls) > 0) =>
        LET call == calls[Len(calls)]
            wanted == ImportOf(call.arg)
            present == Has(call.before, wanted)
            overridden == \E k \in 1..Len(call.validOverrides) :
                              Has(call.before, "import '" \o call.validOverrides[k] \o "';")
        IN  /\ imports.values = IF ~present /\ ~overridden
                                THEN Append(call.before, wanted) ELSE call.before
            /\ NoDuplicates(calls[1].before) => NoDuplicates(imports.values)
            /\ (Len(calls) > 1 /\ calls[Len(calls) - 1].arg = call.arg
                  /\ calls[Len(calls) - 1].validOverrides = call.validOverrides)
               => imports.values = call.before
\* a call that appended its import has been made a second time
C8_Witness ==
    /\ pc = "imports" /\ Len(calls) = 2
    /\ calls[1].arg = calls[2].arg /\ calls[1].validOverrides = calls[2].validOverrides
    /\ calls[1].before # <<>> /\ NoDuplicates(calls[1].before)
    /\ calls[2].before = Append(calls[1].before, ImportOf(calls[1].arg))

(***************************************************************************)
(* Properties of the line range of the import block (under SpecRead).       *)
(***************************************************************************)
\* the lines of the document, and those that are captured as directives
DocLines == IF Val(document) = "" THEN <<>> ELSE Split(Val(document))
IsCaptured(l) == \E k \in 1..Len(imports.values) : imports.values[k] = Trim(DocLines[l])

\* C12: after a text is parsed, startAtLine and endAtLine are both set
\* exactly when a directive was captured; then startAtLine <= endAtLine,
\* startAtLine is the line of the first captured directive and every line
\* of startAtLine..endAtLine is a captured directive: no comment, blank line
\* or library directive lies in the range.
C12_RangeHoldsOnlyDirectives ==
    pc = "read" =>
        /\ hasPreviousImports(imports) <=> hasImports(imports)
        /\ IsNull(imports.startAtLine) <=> IsNull(imports.endAtLine)
        /\ hasPreviousImports(imports) =>
              /\ Val(imports.startAtLine) <= Val(imports.endAtLine)
              /\ Trim(DocLines[Val(imports.startAtLine)]) = imports.values[1]
              /\ \A l \in 1..(Val(imports.startAtLine) - 1) : ~isDirective(Trim(DocLines[l]))
              /\ \A l \in Val(imports.startAtLine)..Val(imports.endAtLine) :
                    isDirective(Trim(DocLines[l])) /\ IsCaptured(l)

(***************************************************************************)
(* Properties of a run of generateDataClass (under SpecRun).                *)
(***************************************************************************)
\* the answers given about the replacement name of the class object k
AnswersAbout(k, name) ==
    {i \in 1..Len(run.answers) : run.answers[i].class = k /\ run.answers[i].name = name}
AnsweredYes(k, name) == \E i \in AnswersAbout(k, name) : run.answers[i].r = "Yes"
AlwaysAnsweredYes(k, name) ==
    /\ AnswersAbout(k, name) # {}
    /\ \A i \in AnswersAbout(k, name) : run.answers[i].r = "Yes"
AskedAbout(k) == \E i \in 1..Len(run.answers) : run.answers[i].class = k
\* every prompt a class calls for when the loop first comes to it has an answer
EveryPromptAnswered ==
    /\ run.chooserShown => Len(run.response) > 0
    /\ \A i \in 1..Len(run.answers) : run.answers[i].r # "null"
    /\ \A v \in 1..Len(run.theClasses) :
          LET k == run.theClasses[v]
          IN  (/\ \A u \in 1..(v - 1) : run.theClasses[u] # k
               /\ run.manual /\ isValid(run.clazzes[k]))
              => \A j \in 1..Len(run.clazzes[k].toReplace) :
                    \E i \in 1..Len(run.answers) :
                        /\ run.answers[i].visit = v
                        /\ run.answers[i].name = run.clazzes[k].toReplace[j].name
\* the edit is applied at most once, after the prompts, and in none of the
\* runs that end early
AppliedOnceAfterPrompts ==
    /\ run.applied <= 1
    /\ run.applied = 1 =>
          /\ pc = "returned" /\ run.returned = "theClasses"
          /\ run.langId = "dart" /\ Len(run.heap) > 0
          /\ EveryPromptAnswered
    /\ (pc = "returned" /\ run.langId = "dart" /\ Len(run.heap) = 0) =>
          /\ run.applied = 0 /\ run.returned = "null"
          /\ run.notices = <<"No convertible dart classes were detected!">>
    /\ (pc = "returned" /\ run.returned # "theClasses") => run.applied = 0

\* C13 as stated: the edit is applied at most once and only after every
\* prompt has been answered, never in a run that ends early (document not
\* Dart, no class detected, chooser cancelled or empty, a prompt cancelled),
\* and when it is applied the replacement list of each class holds exactly
\* the replacements answered 'Yes', in their original order.
C13_ListsHoldTheYesAnswers ==
    /\ AppliedOnceAfterPrompts
    /\ run.applied = 1 =>
          \A v \in 1..Len(run.theClasses) :
              LET k == run.theClasses[v]
              IN  run.heap[k].toReplace =
                      SelectSeq(run.clazzes[k].toReplace, LAMBDA part : AnsweredYes(k, part.name))
\* C13 as amended: the same about when the edit is applied; when it is
\* applied, the replacement list of a class that was asked about holds
\* exactly the replacements that were answered 'Yes' every time they were
\* asked about, in their original order, and the list of a class that was
\* not asked about (override.manual off, class not valid, nothing to
\* replace) is the list the generator made.
C13_AskedListsHoldTheYesAnswers ==
    /\ AppliedOnceAfterPrompts
    /\ run.applied = 1 =>
          \A v \in 1..Len(run.theClasses) :
              LET k == run.theClasses[v]
              IN  run.heap[k].toReplace =
                      IF AskedAbout(k)
                      THEN SelectSeq(run.clazzes[k].toReplace,
                                     LAMBDA part : AlwaysAnsweredYes(k, part.name))
                      ELSE run.clazzes[k].toReplace
\* the edit has been applied after two classes were chosen: one was asked
\* about its two replacements, answered 'No' and 'Yes', the other is not
\* valid and was not asked about its replacement
C13_Witness ==
    /\ run.applied = 1 /\ run.manual /\ run.chooserShown
    /\ Len(run.theClasses) = 2 /\ Len(run.answers) = 2
    /\ run.answers[1].r = "No" /\ run.answers[2].r = "Yes"
    /\ \E k \in 1..Len(run.heap) :
          ~isValid(run.heap[k]) /\ Len(run.heap[k].toReplace) = 1 /\ ~AskedAbout(k)

====
